---------------------------- MODULE Spec2Model ----------------------------
(***************************************************************************)
(* Model of the ARIA5 authenticated scanner (src/authenticated_scanner.py): *)
(* main -> perform_authenticated_scan -> crawl_page -> make_request ->      *)
(* authenticate, and generate_report.  The target server is the            *)
(* environment: every answer it gives is drawn from a small set.           *)
(*                                                                         *)
(* A URL is a sequence of tokens (pieces of the URL string), so that the   *)
(* substring and prefix tests of the code are computed on the URL itself.  *)
(***************************************************************************)
EXTENDS Integers, Sequences, FiniteSets, TLC

VARIABLES pc, cred, recred, authenticated, aria_token, net,
          crawl_queue, discovered_urls, crawled_urls, crawled_count,
          successful_pages, error_pages, authentication_failures,
          url, attempt, callers, response, result,
          scan_result, report, exit_code,
          seen_before, crawl_log, enq_log, login_redirects, last_auth,
          inv_pc, inv_cookies, inv_auth, inv_requests, inv_i,
          investigation_results

vars == <<pc, cred, recred, authenticated, aria_token, net,
          crawl_queue, discovered_urls, crawled_urls, crawled_count,
          successful_pages, error_pages, authentication_failures,
          url, attempt, callers, response, result,
          scan_result, report, exit_code,
          seen_before, crawl_log, enq_log, login_redirects, last_auth,
          inv_pc, inv_cookies, inv_auth, inv_requests, inv_i,
          investigation_results>>

(***************************************************************************)
(* Bounds of the model.  The source has 25 known routes, max_pages = 200   *)
(* and lists the first 10 successful pages; the model keeps the code and   *)
(* scales these three sizes down so that the page cap and the truncation   *)
(* are reached.  RecursionLimit stands for the interpreter's limit on      *)
(* nested make_request frames (sys.getrecursionlimit()), and the server    *)
(* answers at most MaxLoginRedirects requests of a scan with a redirect to *)
(* the login page.                                                         *)
(***************************************************************************)
MaxPages == 2
MaxListed == 1
RecursionLimit == 1
MaxLoginRedirects == 2

(* ----------------------------- constants ------------------------------ *)
request_delay == 1
max_retries == 3
max_pages == MaxPages
successful_listed == MaxListed

base_url == <<"https", "://", "dynamic-risk-intelligence.pages.dev">>

known_routes ==
  << <<"/">>, <<"/", "dashboard">>, <<"/", "login">> >>

credentials ==
  << [username |-> "admin", password |-> "demo123", role |-> "admin"],
     [username |-> "avi_security", password |-> "demo123",
      role |-> "security_manager"] >>

skip_patterns ==
  { <<".pdf">>, <<".jpg">>, <<".png">>, <<".gif">>, <<".css">>, <<".js">>,
    <<".ico">>, <<"/", "logout">>, <<"/", "api", "/", "logout">>,
    <<"javascript:">>, <<"mailto:">>, <<"#">>, <<"data:">> }

Buckets == {"4xx", "5xx", "other", "exceptions"}

(* ------------------------- string operations -------------------------- *)
Range(s) == {s[i] : i \in 1..Len(s)}

\* str.lower() on one token
LowerTok(t) == CASE t = "LOGOUT" -> "logout"
                 [] t = "Logout" -> "logout"
                 [] OTHER -> t

Lower(u) == [i \in 1..Len(u) |-> LowerTok(u[i])]

\* pattern in url
Contains(u, p) ==
  \E i \in 1..Len(u) :
     /\ i + Len(p) - 1 <= Len(u)
     /\ SubSeq(u, i, i + Len(p) - 1) = p

\* url.startswith(prefix)
StartsWith(u, p) == Len(p) <= Len(u) /\ SubSeq(u, 1, Len(p)) = p

\* url.startswith('http')
StartsWithHttp(u) == Len(u) > 0 /\ u[1] \in {"http", "https"}

\* url.startswith('/'): the first character is a slash
StartsWithSlash(u) == Len(u) > 0 /\ u[1] \in {"/", "//"}

\* urlparse(u).netloc
Netloc(u) ==
  IF Len(u) >= 3 /\ u[1] \in {"http", "https"} /\ u[2] = "://" THEN u[3]
  ELSE IF Len(u) >= 2 /\ u[1] = "//" THEN u[2]
  ELSE ""

\* the scheme and authority part of u, as a prefix
Origin(u) ==
  IF Len(u) >= 3 /\ u[1] \in {"http", "https"} /\ u[2] = "://"
    THEN SubSeq(u, 1, 3)
  ELSE IF Len(u) >= 2 /\ u[1] = "//" THEN SubSeq(u, 1, 2)
  ELSE <<>>

HasScheme(u) == Len(u) > 0 /\ u[1] \in {"http", "https", "javascript:", "mailto:", "data:"}

\* urljoin(base, ref)
urljoin(base, ref) ==
  IF ref = <<>> THEN base
  ELSE IF HasScheme(ref) THEN ref
  ELSE IF ref[1] = "//"
    THEN IF StartsWithHttp(base) THEN <<base[1], "://">> \o Tail(ref) ELSE ref
  ELSE IF ref[1] = "/" THEN Origin(base) \o ref
  ELSE IF ref[1] = "#" THEN base \o ref
  ELSE Origin(base) \o <<"/">> \o ref


(* --------------------------- the environment -------------------------- *)
\* href, hx-* and action attribute values a served page may carry
HrefNew == <<"/", "reports">>
HrefKnown == <<"/", "dashboard">>
HrefLogout == <<"/", "logout">>
HrefSchemeRel == <<"//", "evil.example", "/", "x">>
HrefExternal == <<"https", "://", "evil.example", "/", "x">>
HrefAbsInternal == base_url \o <<"/", "risk">>

PageHrefSets ==
  { {},
    {HrefNew, HrefKnown, HrefLogout, HrefSchemeRel, HrefExternal,
     HrefAbsInternal} }

\* status code of an error_result (the string 'ERROR' of the source)
ERROR == -1

\* status code of the result for a make_request that returned None (the
\* string 'TIMEOUT' of the source)
TIMEOUT == -2

Resp(sc, login, html, hrefs) ==
  [status_code |-> sc, location_login |-> login, html |-> html, hrefs |-> hrefs]

\* what session.get may return to make_request
Responses ==
  {Resp(200, FALSE, TRUE, h) : h \in PageHrefSets}
    \cup { Resp(200, FALSE, FALSE, {HrefNew}),
           Resp(201, FALSE, TRUE, {HrefNew}),
           Resp(302, TRUE, FALSE, {}),
           Resp(302, FALSE, FALSE, {}),
           Resp(404, FALSE, TRUE, {HrefNew, HrefKnown}),
           Resp(500, FALSE, FALSE, {}) }

\* session.get raising requests.exceptions.Timeout / RequestException
RequestFailures == {"Timeout", "RequestException"}

\* the exception object crawl_page catches
Raised(e) == [exception |-> e]
IsRaised(r) == "exception" \in DOMAIN r

NoResponse == [none |-> TRUE]

\* answers to the GET of the login page and to the POST of the credentials
LoginPageAnswers == {"exception", "200", "503"}
AuthAnswers ==
  {"exception", "set_aria_token", "redirect_dashboard", "welcome_page",
   "redirect_login", "rejected"}

\* the server accepted the credentials posted to it: the login page was
\* served, the POST was answered, and the answer is one of a successful login
Accepted(g, p) ==
  g = "200" /\ p \in {"set_aria_token", "redirect_dashboard", "welcome_page"}

(* ------------------------------ requests ------------------------------ *)
\* time.sleep(self.request_delay)
Sleep(n) == [n EXCEPT !.slept = TRUE]

\* one HTTP request on the session; it records whether the delay was
\* applied immediately before it
Send(n, kind) ==
  [slept |-> FALSE,
   log |-> n.log \cup {[req |-> kind, delayed |-> n.slept]}]

(* ---------------------------- authenticate ---------------------------- *)
\* authenticate(username, password): the value returned, the cookie jar and
\* the requests sent, for the answers g (login page) and p (credentials)
authenticate(cookie, n, g, p) ==
  LET n1 == Send(n, "GET /login")
      n2 == Send(n1, "POST /auth/login")
      cookie2 == cookie \/ p = "set_aria_token"
  IN  IF g = "exception" THEN [ok |-> FALSE, cookie |-> cookie, net |-> n1]
      ELSE IF g # "200" THEN [ok |-> FALSE, cookie |-> cookie, net |-> n1]
      ELSE IF p = "exception" THEN [ok |-> FALSE, cookie |-> cookie, net |-> n2]
      ELSE IF cookie2 THEN [ok |-> TRUE, cookie |-> cookie2, net |-> n2]
      ELSE IF p = "redirect_dashboard"
        THEN [ok |-> TRUE, cookie |-> cookie2, net |-> n2]
      ELSE IF p = "welcome_page"
        THEN [ok |-> TRUE, cookie |-> cookie2, net |-> n2]
      ELSE [ok |-> FALSE, cookie |-> cookie2, net |-> n2]

(* ------------------------ extract_links_from_page --------------------- *)
extract_links_from_page(u, hrefs) ==
  { urljoin(u, h) :
      h \in { x \in hrefs :
                \/ Netloc(urljoin(u, x)) = Netloc(base_url)
                \/ StartsWithSlash(x) } }

(* ------------------------------ crawl_page ---------------------------- *)
\* mutant: the 4xx range is closed at 500
BucketOfWide(sc) ==
  IF 400 <= sc /\ sc <= 500 THEN "4xx"
  ELSE IF 500 <= sc /\ sc < 600 THEN "5xx"
  ELSE IF 200 <= sc /\ sc < 300 THEN "success"
  ELSE "other"

\* the bucket a status code is filed under
BucketOf(sc) ==
  IF 400 <= sc /\ sc < 500 THEN "4xx"
  ELSE IF 500 <= sc /\ sc < 600 THEN "5xx"
  ELSE IF 200 <= sc /\ sc < 300 THEN "success"
  ELSE "other"

\* mutant: any 2xx status will do
ExtractsLinksAny2xx(r) == 200 <= r.status_code /\ r.status_code < 300 /\ r.html

\* links are extracted from HTML pages with status 200 only
ExtractsLinks(r) == r.status_code = 200 /\ r.html

(* ---------------------- perform_authenticated_scan -------------------- *)
\* mutant: the cap is tested with <= instead of <
LoopContinuesOffByOne(q, n) == q # <<>> /\ n <= max_pages

\* while crawl_queue and crawled_count < max_pages
LoopContinues(q, n) == q # <<>> /\ n < max_pages

\* mutant: the front URL is read but not removed from the queue
popleftPeek(q) == [url |-> Head(q), rest |-> q]

\* mutant: deque.pop(), which takes the URL at the right end
popRight(q) == [url |-> q[Len(q)], rest |-> SubSeq(q, 1, Len(q) - 1)]

\* crawl_queue.popleft(): the URL taken and the queue left
popleft(q) == [url |-> Head(q), rest |-> Tail(q)]

\* mutant: the patterns are looked for in the URL as written, not in
\* url.lower()
ShouldSkipCaseSensitive(u, crawled) ==
  \/ u \in crawled
  \/ StartsWithHttp(u) /\ ~StartsWith(u, base_url)
  \/ \E p \in skip_patterns : Contains(u, p)

\* the three "continue" tests of the crawl loop
ShouldSkip(u, crawled) ==
  \/ u \in crawled
  \/ StartsWithHttp(u) /\ ~StartsWith(u, base_url)
  \/ \E p \in skip_patterns : Contains(Lower(u), p)

\* the orders in which "for link in result['links']" may visit a set
Orderings(S) ==
  {o \in [1..Cardinality(S) -> S] : {o[i] : i \in 1..Cardinality(S)} = S}

\* the links of a result that pass the test of the enqueue loop
NewLinks(links, discovered, crawled) ==
  {l \in links : l \notin discovered /\ l \notin crawled}

(* ---------------------------- generate_report ------------------------- *)
RECURSIVE SumLen(_, _)
SumLen(f, S) ==
  IF S = {} THEN 0
  ELSE LET k == CHOOSE x \in S : TRUE IN Len(f[k]) + SumLen(f, S \ {k})

\* mutant: the slice stops one entry early
FirstNShort(s, n) == SubSeq(s, 1, IF Len(s) < n THEN Len(s) - 1 ELSE n - 1)

\* self.successful_pages[:n]
FirstN(s, n) == SubSeq(s, 1, IF Len(s) < n THEN Len(s) ELSE n)

\* the rows of error_analysis.csv
CsvRows(ep) ==
  UNION { { [url |-> ep[b][i].url, status_code |-> ep[b][i].status_code,
             error_type |-> b] : i \in 1..Len(ep[b]) } : b \in DOMAIN ep }

\* mutant: the buckets in use are counted instead of their entries
ErrorTotalKeys(ep) == Cardinality({b \in DOMAIN ep : ep[b] # <<>>})

\* sum(len(errors) for errors in self.error_pages.values())
ErrorTotal(ep) == SumLen(ep, DOMAIN ep)

generate_report(crawled, discovered, succ, ep, failures) ==
  [csv |-> CsvRows(ep),
   scan_info |->
     [pages_crawled |-> Cardinality(crawled),
      total_discovered |-> Cardinality(discovered),
      successful_pages |-> Len(succ),
      error_pages |-> ErrorTotal(ep),
      authentication_failures |-> Len(failures)],
   error_summary |->
     [x4xx_errors |-> Len(ep["4xx"]),
      x5xx_errors |-> Len(ep["5xx"]),
      other_errors |-> Len(ep["other"]),
      exceptions |-> Len(ep["exceptions"])],
   detailed_errors |-> ep,
   authentication_failures |-> failures,
   successful_pages |-> FirstN(succ, successful_listed),
   all_discovered_urls |-> discovered]

NoReport == [none |-> TRUE]

(* --------------------------------- main ------------------------------- *)
\* mutant: the report is written whatever the scan returned
WritesReportAlways(scanned) == TRUE

\* main calls generate_report when perform_authenticated_scan returned True
WritesReport(scanned) == scanned

\* the value main returns
ExitCode(scanned) == IF scanned THEN 0 ELSE 1

(* -------------------- detailed_error_investigation ------------------- *)
\* the errors of the scan that run_investigation looks into
errors_500 == << <<"/", "phase", "5">> >>

errors_404 ==
  << <<"/", "dynamic", "-risk-analysis">>,
     <<"/", "api", "/", "compliance">>,
     <<"/", "api", "/", "services">>,
     <<"/", "api", "/", "threat-intelligence", "/", "sources">>,
     <<"/", "api", "/", "threat-intelligence", "/", "indicators">>,
     <<"/", "api", "/", "validation", "/", "queue">>,
     <<"/", "api", "/", "validation", "/", "metrics">> >>

ui_keywords == { <<"/", "dashboard">>, <<"/", "phase">>, <<"/", "dynamic">> }

\* the pattern a path is sorted into: the if / elif / else of the loop
PatternOf(u) ==
  IF StartsWith(u, <<"/", "api", "/">>) THEN "api_endpoints"
  ELSE IF \E k \in ui_keywords : Contains(u, k) THEN "ui_pages"
  ELSE "missing_features"

\* the paths of s, in order, that are sorted into pattern c
RECURSIVE PathsOf(_, _)
PathsOf(s, c) ==
  IF s = <<>> THEN <<>>
  ELSE (IF PatternOf(Head(s)) = c THEN <<Head(s)>> ELSE <<>>)
         \o PathsOf(Tail(s), c)

\* investigate_404_patterns(url_paths)
investigate_404_patterns(url_paths) ==
  [api_endpoints |-> PathsOf(url_paths, "api_endpoints"),
   ui_pages |-> PathsOf(url_paths, "ui_pages"),
   missing_features |-> PathsOf(url_paths, "missing_features")]

\* the recommendations run_investigation derives from its results
Recommendations(r) ==
  (IF r.errors_500 # <<>> THEN <<"CRITICAL">> ELSE <<>>)
    \o (IF r.patterns_404.api_endpoints # <<>> THEN <<"HIGH">> ELSE <<>>)
    \o (IF r.patterns_404.ui_pages # <<>> THEN <<"MEDIUM">> ELSE <<>>)

NoPatterns ==
  [api_endpoints |-> <<>>, ui_pages |-> <<>>, missing_features |-> <<>>]

\* answers to the POST of the credentials: it raises, or it is answered with
\* or without an aria_token cookie
InvAuthAnswers == {"exception", "set_aria_token", "no_cookie"}

\* answers to the GET of investigate_500_error: status, whether the content
\* type is text/html, and whether the body shows an error indicator
InvResponses ==
  { [status_code |-> sc, html |-> h, indicators |-> e] :
      sc \in {200, 302, 403, 404, 500}, h \in BOOLEAN, e \in BOOLEAN }
    \ { [status_code |-> sc, html |-> FALSE, indicators |-> TRUE] :
          sc \in {200, 302, 403, 404, 500} }

\* the investigator after "self.session = requests.Session()"
InvestigatorInit ==
  /\ inv_pc = "construct"
  /\ inv_cookies = FALSE
  /\ inv_auth = FALSE
  /\ inv_requests = <<>>
  /\ inv_i = 1
  /\ investigation_results =
       [errors_500 |-> <<>>, patterns_404 |-> NoPatterns,
        recommendations |-> <<>>]

investigatorState ==
  <<inv_pc, inv_cookies, inv_auth, inv_requests, inv_i,
    investigation_results>>

(* ------------------------------- state -------------------------------- *)
\* no call of authenticate has just returned
NoAuth == [none |-> TRUE]

NoUrl == <<>>
NoResult == [none |-> TRUE]

Init ==
  /\ pc = "auth"
  /\ cred = 1
  /\ recred = 1
  /\ authenticated = FALSE
  /\ aria_token = FALSE
  /\ net = [slept |-> FALSE, log |-> {}]
  /\ crawl_queue = <<>>
  /\ discovered_urls = {}
  /\ crawled_urls = {}
  /\ crawled_count = 0
  /\ successful_pages = <<>>
  /\ error_pages = [b \in Buckets |-> <<>>]
  /\ authentication_failures = <<>>
  /\ url = NoUrl
  /\ attempt = 0
  /\ callers = <<>>
  /\ response = NoResponse
  /\ result = NoResult
  /\ scan_result = FALSE
  /\ report = NoReport
  /\ exit_code = -1
  /\ seen_before = {}
  /\ crawl_log = <<>>
  /\ enq_log = <<>>
  /\ login_redirects = 0
  /\ last_auth = NoAuth
  /\ InvestigatorInit

crawlState == <<crawl_queue, discovered_urls, crawled_urls, crawled_count>>
bucketState == <<successful_pages, error_pages>>
requestState == <<url, recred, attempt, callers, response, result>>
mainState == <<scan_result, report, exit_code>>
historyState == <<seen_before, crawl_log, enq_log>>

\* mutant: the known routes are queued and not added to discovered_urls
InitialDiscoveredNone(discovered, routes) == discovered

\* self.discovered_urls.update(self.known_routes)
InitialDiscovered(discovered, routes) == discovered \cup Range(routes)

(* perform_authenticated_scan, step 1 and 2: one call of authenticate in   *)
(* the loop over the credentials; on success the queue is initialised.     *)
Authenticate ==
  /\ pc = "auth"
  /\ \E g \in LoginPageAnswers, p \in AuthAnswers :
       LET a == authenticate(aria_token, net, g, p) IN
         /\ aria_token' = a.cookie
         /\ net' = a.net
         /\ last_auth' = [ok |-> a.ok, accepted |-> Accepted(g, p)]
         /\ IF a.ok
              THEN /\ authenticated' = TRUE
                   /\ crawl_queue' = known_routes
                   /\ discovered_urls' =
                        InitialDiscovered(discovered_urls, known_routes)
                   /\ crawled_count' = 0
                   /\ enq_log' = known_routes
                   /\ pc' = "loop"
                   /\ UNCHANGED <<cred, scan_result>>
              ELSE /\ UNCHANGED <<authenticated, crawl_queue, discovered_urls,
                                  crawled_count, enq_log>>
                   /\ IF cred < Len(credentials)
                        THEN /\ cred' = cred + 1
                             /\ UNCHANGED <<pc, scan_result>>
                        ELSE /\ scan_result' = FALSE
                             /\ pc' = "main"
                             /\ UNCHANGED cred
  /\ UNCHANGED <<crawled_urls, bucketState, authentication_failures,
                 requestState, report, exit_code, seen_before, crawl_log>>
  /\ UNCHANGED login_redirects
  /\ UNCHANGED investigatorState

(* The head of the while loop: leave the loop, or pop a URL and either     *)
(* skip it or enter crawl_page with it.                                    *)
ScanLoop ==
  /\ pc = "loop"
  /\ IF LoopContinues(crawl_queue, crawled_count)
       THEN LET u == popleft(crawl_queue).url IN
              /\ crawl_queue' = popleft(crawl_queue).rest
              /\ IF ShouldSkip(u, crawled_urls)
                   THEN UNCHANGED <<pc, requestState, seen_before, crawl_log>>
                   ELSE /\ pc' = "request"
                        /\ url' = u
                        /\ attempt' = 0
                        /\ recred' = 1
                        /\ callers' = <<>>
                        /\ response' = NoResponse
                        /\ result' = NoResult
                        /\ seen_before' = discovered_urls \cup crawled_urls
                        /\ crawl_log' = Append(crawl_log, u)
              /\ UNCHANGED scan_result
       ELSE /\ scan_result' = TRUE
            /\ pc' = "main"
            /\ UNCHANGED <<crawl_queue, requestState, seen_before, crawl_log>>
  /\ UNCHANGED <<cred, authenticated, aria_token, net, discovered_urls,
                 crawled_urls, crawled_count, bucketState,
                 authentication_failures, report, exit_code, enq_log>>
  /\ last_auth' = NoAuth
  /\ UNCHANGED login_redirects
  /\ UNCHANGED investigatorState

\* mutant: the comparison with the last index of the retry loop is off by one
LastAttemptOffByOne(a) == a = max_retries

\* attempt == self.max_retries - 1: the exception handlers raise again
LastAttempt(a) == a = max_retries - 1

(* A request exception leaves the retry loop of a make_request frame on   *)
(* its last attempt.  The call of the frame below is inside that frame's   *)
(* try block, so the exception is caught there and that frame goes on with *)
(* its own next attempt.  Unwind(cs) is where the exception ends for the   *)
(* attempt counters cs of the calling frames, innermost last.              *)
RECURSIVE Unwind(_)
Unwind(cs) ==
  IF cs = <<>> THEN [raised |-> TRUE, callers |-> <<>>, attempt |-> 0]
  ELSE LET a == cs[Len(cs)]
           rest == SubSeq(cs, 1, Len(cs) - 1)
       IN  IF LastAttempt(a) THEN Unwind(rest)
           ELSE [raised |-> FALSE, callers |-> rest, attempt |-> a + 1]

\* mutant: the location header is not looked at
IsLoginRedirectAny302(r) == r.status_code = 302

\* response.status_code == 302 and '/login' in the location header
IsLoginRedirect(r) == r.status_code = 302 /\ r.location_login

\* the answers the server may give to the next request of make_request
Answers(failures) ==
  {r \in Responses :
     (r.status_code = 302 /\ r.location_login)
        => Len(failures) < MaxLoginRedirects}

(* make_request: one pass of the retry loop, the delay and the request.   *)
(* A retry loop that has run to its end leaves make_request with "return   *)
(* None", which every calling frame passes on.                             *)
MakeRequest ==
  /\ pc = "request"
  /\ IF attempt >= max_retries
       THEN /\ response' = NoResponse
            /\ pc' = "record"
            /\ UNCHANGED <<net, attempt, callers, recred,
                           authentication_failures, login_redirects>>
       ELSE /\ net' = Send(Sleep(net), "GET page")
            /\ \/ \E e \in RequestFailures :
                    IF LastAttempt(attempt)
                      THEN LET w == Unwind(callers) IN
                             /\ callers' = w.callers
                             /\ IF w.raised
                                  THEN /\ response' = Raised(e)
                                       /\ pc' = "record"
                                       /\ UNCHANGED attempt
                                  ELSE /\ attempt' = w.attempt
                                       /\ UNCHANGED <<pc, response>>
                             /\ UNCHANGED <<recred, authentication_failures,
                                            login_redirects>>
                      ELSE /\ attempt' = attempt + 1
                           /\ UNCHANGED <<pc, response, recred, callers,
                                          authentication_failures,
                                          login_redirects>>
               \/ \E r \in Answers(authentication_failures) :
                    /\ response' = r
                    /\ login_redirects' =
                         login_redirects
                           + (IF r.status_code = 302 /\ r.location_login
                                THEN 1 ELSE 0)
                    /\ IF IsLoginRedirect(r)
                         THEN /\ authentication_failures' =
                                   Append(authentication_failures,
                                          [url |-> urljoin(base_url, url),
                                           status_code |-> r.status_code])
                              /\ recred' = 1
                              /\ pc' = "reauth"
                         ELSE /\ pc' = "record"
                              /\ UNCHANGED <<recred, authentication_failures>>
                    /\ UNCHANGED <<attempt, callers>>
  /\ UNCHANGED <<cred, authenticated, aria_token, crawlState, bucketState,
                 url, result, mainState, historyState>>
  /\ last_auth' = NoAuth
  /\ UNCHANGED investigatorState

(* mutant: "return response" is inside the loop over the credentials, so   *)
(* the first failure gives up                                              *)
AfterReauthGivesUp(ok, c, d) ==
  IF ok THEN (IF d < RecursionLimit THEN "retry" ELSE "overflow")
  ELSE "give_up"

(* What make_request does when authenticate has returned ok for the        *)
(* credential c, with d calling frames of make_request: retry the request  *)
(* one frame deeper (RecursionError when the frames exceed the limit), try *)
(* the next credential, or return the redirect.                            *)
AfterReauth(ok, c, d) ==
  IF ok THEN (IF d < RecursionLimit THEN "retry" ELSE "overflow")
  ELSE IF c < Len(credentials) THEN "next"
  ELSE "give_up"

(* make_request after a redirect to the login page: one call of            *)
(* authenticate in the loop over the credentials.  A success calls         *)
(* make_request again, one frame deeper; the interpreter raises            *)
(* RecursionError, which no frame of make_request catches, when the frames *)
(* exceed its limit.                                                       *)
Reauthenticate ==
  /\ pc = "reauth"
  /\ \E g \in LoginPageAnswers, p \in AuthAnswers :
       LET a == authenticate(aria_token, net, g, p)
           todo == AfterReauth(a.ok, recred, Len(callers)) IN
         /\ aria_token' = a.cookie
         /\ net' = a.net
         /\ last_auth' = [ok |-> a.ok, accepted |-> Accepted(g, p)]
         /\ CASE todo = "retry" ->
                   /\ callers' = Append(callers, attempt)
                   /\ attempt' = 0
                   /\ pc' = "request"
                   /\ UNCHANGED <<recred, response>>
              [] todo = "overflow" ->
                   /\ response' = Raised("RecursionError")
                   /\ pc' = "record"
                   /\ UNCHANGED <<recred, callers, attempt>>
              [] todo = "next" ->
                   /\ recred' = recred + 1
                   /\ UNCHANGED <<pc, callers, attempt, response>>
              [] todo = "give_up" ->
                   /\ pc' = "record"
                   /\ UNCHANGED <<recred, callers, attempt, response>>
  /\ UNCHANGED <<cred, authenticated, crawlState, bucketState,
                 authentication_failures, url, result, mainState,
                 historyState>>
  /\ UNCHANGED login_redirects
  /\ UNCHANGED investigatorState

(* crawl_page after make_request has returned or raised (its frames are    *)
(* gone): file the result in its bucket and extract the links of an HTML   *)
(* page.                                                                   *)
CrawlPage ==
  /\ pc = "record"
  /\ IF response = NoResponse
       THEN /\ result' = [url |-> url, status_code |-> TIMEOUT,
                          error |-> "Request timed out", links |-> {}]
            /\ UNCHANGED <<successful_pages, error_pages, discovered_urls>>
     ELSE IF IsRaised(response)
       THEN LET error_result ==
                  [url |-> url, status_code |-> ERROR,
                   error |-> response.exception, links |-> {}] IN
              /\ error_pages' =
                   [error_pages EXCEPT
                      !["exceptions"] = Append(@, error_result)]
              /\ result' = error_result
              /\ UNCHANGED <<successful_pages, discovered_urls>>
       ELSE LET links == IF ExtractsLinks(response)
                           THEN extract_links_from_page(url, response.hrefs)
                           ELSE {}
                res == [url |-> url, status_code |-> response.status_code,
                        links |-> links]
                b == BucketOf(response.status_code) IN
              /\ IF b = "success"
                   THEN /\ successful_pages' = Append(successful_pages, res)
                        /\ UNCHANGED error_pages
                   ELSE /\ error_pages' =
                             [error_pages EXCEPT ![b] = Append(@, res)]
                        /\ UNCHANGED successful_pages
              /\ discovered_urls' = discovered_urls \cup links
              /\ result' = res
  /\ attempt' = 0
  /\ callers' = <<>>
  /\ recred' = 1
  /\ pc' = "mark"
  /\ UNCHANGED <<cred, authenticated, aria_token, net, crawl_queue,
                 crawled_urls, crawled_count, authentication_failures,
                 url, response, mainState, historyState>>
  /\ last_auth' = NoAuth
  /\ UNCHANGED login_redirects
  /\ UNCHANGED investigatorState

(* mutant: a page whose request raised is put back on the queue and not    *)
(* marked as crawled                                                       *)
MarkCrawledRequeue ==
  /\ pc = "mark"
  /\ crawled_count' = crawled_count + 1
  /\ IF result.status_code = ERROR
       THEN /\ crawl_queue' = <<url>> \o crawl_queue
            /\ UNCHANGED <<crawled_urls, discovered_urls, enq_log>>
       ELSE /\ crawled_urls' = crawled_urls \cup {url}
            /\ UNCHANGED <<crawl_queue, discovered_urls, enq_log>>
  /\ response' = NoResponse
  /\ pc' = "loop"
  /\ UNCHANGED <<cred, authenticated, aria_token, net, bucketState,
                 authentication_failures, url, recred, attempt,
                 callers, result, mainState, seen_before, crawl_log>>
  /\ last_auth' = NoAuth
  /\ UNCHANGED login_redirects
  /\ UNCHANGED investigatorState

(* The rest of the loop body: the URL counts as crawled and the links not  *)
(* seen so far are put on the queue.                                       *)
MarkCrawled ==
  /\ pc = "mark"
  /\ crawled_urls' = crawled_urls \cup {url}
  /\ crawled_count' = crawled_count + 1
  /\ \E o \in Orderings(NewLinks(result.links, discovered_urls,
                                 crawled_urls \cup {url})) :
       /\ crawl_queue' = crawl_queue \o o
       /\ enq_log' = enq_log \o o
       /\ discovered_urls' = discovered_urls \cup Range(o)
  /\ response' = NoResponse
  /\ pc' = "loop"
  /\ UNCHANGED <<cred, authenticated, aria_token, net, bucketState,
                 authentication_failures, url, recred, attempt,
                 callers, result, mainState, seen_before, crawl_log>>
  /\ last_auth' = NoAuth
  /\ UNCHANGED login_redirects
  /\ UNCHANGED investigatorState

(* main: the report is written only when the scan returned True.           *)
Main ==
  /\ pc = "main"
  /\ IF WritesReport(scan_result)
       THEN report' = generate_report(crawled_urls, discovered_urls,
                                      successful_pages, error_pages,
                                      authentication_failures)
       ELSE UNCHANGED report
  /\ exit_code' = ExitCode(scan_result)
  /\ pc' = "exit"
  /\ UNCHANGED <<cred, authenticated, aria_token, net, crawlState,
                 bucketState, authentication_failures, requestState,
                 scan_result, historyState>>
  /\ last_auth' = NoAuth
  /\ UNCHANGED login_redirects
  /\ UNCHANGED investigatorState

\* mutant: the handler of the interrupt returns 1 without a report
InterruptNoReport ==
  /\ pc \in {"auth", "loop", "request", "reauth", "record", "mark", "main"}
  /\ exit_code' = 1
  /\ pc' = "exit"
  /\ UNCHANGED <<cred, authenticated, aria_token, net, crawlState,
                 bucketState, authentication_failures, requestState,
                 scan_result, report, historyState, login_redirects,
                 last_auth>>
  /\ UNCHANGED investigatorState

(* main, "except KeyboardInterrupt": the user interrupts the scan.  The     *)
(* interrupt is no Exception, so neither authenticate nor crawl_page       *)
(* catches it; it ends perform_authenticated_scan wherever it is, and main *)
(* generates the report from the results held at that moment and returns 1.*)
Interrupt ==
  /\ pc \in {"auth", "loop", "request", "reauth", "record", "mark", "main"}
  /\ report' = generate_report(crawled_urls, discovered_urls,
                               successful_pages, error_pages,
                               authentication_failures)
  /\ exit_code' = 1
  /\ pc' = "exit"
  /\ UNCHANGED <<cred, authenticated, aria_token, net, crawlState,
                 bucketState, authentication_failures, requestState,
                 scan_result, historyState, login_redirects, last_auth>>
  /\ UNCHANGED investigatorState

Next ==
  \/ Authenticate
  \/ ScanLoop
  \/ MakeRequest
  \/ Reauthenticate
  \/ CrawlPage
  \/ MarkCrawled
  \/ Main

Spec == Init /\ [][Next]_vars

\* the program keeps running until main returns
FairSpec == Spec /\ WF_vars(Next)

\* the program with a user who may interrupt it
InterruptNext == Next \/ Interrupt

InterruptSpec == Init /\ [][InterruptNext]_vars

(* ------------- detailed_error_investigation.py: the program ----------- *)
scannerState ==
  <<pc, cred, recred, authenticated, aria_token, net, crawl_queue,
    discovered_urls, crawled_urls, crawled_count, successful_pages,
    error_pages, authentication_failures, url, attempt, callers, response,
    result, scan_result, report, exit_code, seen_before, crawl_log, enq_log,
    login_redirects, last_auth>>

(* DetailedErrorInvestigator.__init__: "self.authenticate()".  The value   *)
(* authenticate returns is dropped; main goes on to run_investigation.     *)
InvAuthenticate ==
  /\ inv_pc = "construct"
  /\ \E a \in InvAuthAnswers :
       /\ inv_requests' =
            Append(inv_requests,
                   [method |-> "POST", path |-> <<"/", "auth", "/", "login">>])
       /\ inv_cookies' = (inv_cookies \/ a = "set_aria_token")
       /\ inv_auth' = (a # "exception" /\ inv_cookies')
  /\ inv_pc' = "run"
  /\ UNCHANGED <<inv_i, investigation_results>>
  /\ UNCHANGED scannerState

(* run_investigation, the loop over errors_500: investigate_500_error for  *)
(* one path.  The request or the write of the response file may raise;     *)
(* then the result is None and nothing is appended.                        *)
Investigate500 ==
  /\ inv_pc = "run"
  /\ inv_i <= Len(errors_500)
  /\ inv_requests' =
       Append(inv_requests, [method |-> "GET", path |-> errors_500[inv_i]])
  /\ \/ UNCHANGED investigation_results
     \/ \E r \in InvResponses :
          investigation_results' =
            [investigation_results EXCEPT
               !.errors_500 =
                  Append(@, [url |-> errors_500[inv_i],
                             status_code |-> r.status_code,
                             html |-> r.html,
                             indicators |-> r.indicators])]
  /\ inv_i' = inv_i + 1
  /\ inv_pc' = IF inv_i = Len(errors_500) THEN "patterns" ELSE "run"
  /\ UNCHANGED <<inv_cookies, inv_auth>>
  /\ UNCHANGED scannerState

\* run_investigation: the 404 paths are sorted into the three patterns
Investigate404 ==
  /\ inv_pc = "patterns"
  /\ investigation_results' =
       [investigation_results EXCEPT
          !.patterns_404 = investigate_404_patterns(errors_404)]
  /\ inv_pc' = "recommend"
  /\ UNCHANGED <<inv_cookies, inv_auth, inv_requests, inv_i>>
  /\ UNCHANGED scannerState

(* run_investigation: the recommendations, and the report file, whose      *)
(* writing may raise.                                                      *)
Recommend ==
  /\ inv_pc = "recommend"
  /\ investigation_results' =
       [investigation_results EXCEPT
          !.recommendations = Recommendations(investigation_results)]
  /\ inv_pc' \in {"saved", "raised"}
  /\ UNCHANGED <<inv_cookies, inv_auth, inv_requests, inv_i>>
  /\ UNCHANGED scannerState

InvNext ==
  \/ InvAuthenticate
  \/ Investigate500
  \/ Investigate404
  \/ Recommend

InvSpec == Init /\ [][InvNext]_vars

(* The crawl loop on its own, for any list of routes.  The loop reads the  *)
(* routes from self.known_routes; RouteLists are lists with a URL that     *)
(* occurs twice, URLs with skip patterns in either case, and absolute URLs *)
(* inside and outside base_url.  LoopInit is the state at the head of the  *)
(* loop after a successful authenticate.                                   *)
RouteLists ==
  { << <<"/", "logout">>, <<"/">>, HrefExternal, <<"/", "dashboard">> >>,
    << <<"/">>, <<"/", "LOGOUT">>, <<"/">>, HrefAbsInternal,
       <<"/", "report", ".pdf">> >>,
    << <<"/", "page", "#", "top">>, <<"/", "api", "/", "logout">>,
       <<"/", "health">> >> }

LoopInit ==
  /\ pc = "loop"
  /\ cred = 1
  /\ recred = 1
  /\ authenticated = TRUE
  /\ \E p \in {"set_aria_token", "redirect_dashboard"} :
       LET a == authenticate(FALSE, [slept |-> FALSE, log |-> {}], "200", p)
       IN  aria_token = a.cookie /\ net = a.net
  /\ \E r \in RouteLists :
       /\ crawl_queue = r
       /\ discovered_urls = Range(r)
       /\ enq_log = r
  /\ crawled_urls = {}
  /\ crawled_count = 0
  /\ successful_pages = <<>>
  /\ error_pages = [b \in Buckets |-> <<>>]
  /\ authentication_failures = <<>>
  /\ url = NoUrl
  /\ attempt = 0
  /\ callers = <<>>
  /\ response = NoResponse
  /\ result = NoResult
  /\ scan_result = FALSE
  /\ report = NoReport
  /\ exit_code = -1
  /\ seen_before = {}
  /\ crawl_log = <<>>
  /\ login_redirects = 0
  /\ last_auth = NoAuth
  /\ InvestigatorInit

LoopNext ==
  \/ ScanLoop
  \/ MakeRequest
  \/ Reauthenticate
  \/ CrawlPage
  \/ MarkCrawled
  \/ Main

LoopSpec == LoopInit /\ [][LoopNext]_vars

TypeOK ==
  /\ pc \in {"auth", "loop", "request", "reauth", "record", "mark", "main", "exit"}
  /\ cred \in 1..Len(credentials)
  /\ recred \in 1..Len(credentials)
  /\ attempt \in 0..max_retries - 1
  /\ Len(callers) \in 0..RecursionLimit
  /\ crawled_count \in 0..max_pages

(* ============================== properties ============================ *)
\* crawl_page has been entered and has not returned yet
InCrawlPage == pc \in {"request", "reauth", "record"}

\* a URL is being crawled: crawl_page is running, or it has returned and
\* the loop body has not finished
Crawling == pc \in {"request", "reauth", "record", "mark"}

\* the number of entries of all buckets with URL u
Recorded(u) ==
  Cardinality({i \in 1..Len(successful_pages) : successful_pages[i].url = u})
    + Cardinality({i \in 1..Len(error_pages["4xx"]) :
                     error_pages["4xx"][i].url = u})
    + Cardinality({i \in 1..Len(error_pages["5xx"]) :
                     error_pages["5xx"][i].url = u})
    + Cardinality({i \in 1..Len(error_pages["other"]) :
                     error_pages["other"][i].url = u})
    + Cardinality({i \in 1..Len(error_pages["exceptions"]) :
                     error_pages["exceptions"][i].url = u})

\* the position of the first occurrence of u in the sequence s
FirstPos(s, u) == CHOOSE i \in 1..Len(s) : s[i] = u /\ \A j \in 1..(i - 1) : s[j] # u

(* C1: when the loop body has finished with a page of status 200 and HTML  *)
(* content, every link extracted from it that was neither discovered nor   *)
(* crawled before the page was crawled has been appended to the queue.     *)
C1_NewLinksAreQueued ==
  (pc = "loop" /\ result # NoResult)
    => \A l \in result.links \ seen_before : l \in Range(enq_log)

(* C2: the scan terminates whatever the server answers: main returns, so  *)
(* every call of crawl_page has returned, and a scan that ran its loop     *)
(* left it with an empty queue or at the page cap.                         *)
C2_ScanTerminates ==
  <>(/\ pc = "exit"
     /\ scan_result => (crawl_queue = <<>> \/ crawled_count >= max_pages))

\* main has returned after a scan in which redirects to the login page and
\* successful re-authentications drove make_request to the recursion limit
C2_Witness ==
  /\ pc = "exit"
  /\ Len(authentication_failures) > RecursionLimit
  /\ \E i \in 1..Len(error_pages["exceptions"]) :
       error_pages["exceptions"][i].error = "RecursionError"

(* C3: crawl_page is called at most once for any URL.                      *)
C3_CrawledOnce ==
  \A i, j \in 1..Len(crawl_log) : crawl_log[i] = crawl_log[j] => i = j

\* two pages were crawled and the first one linked to the second, which
\* was already known
C3_Witness ==
  /\ Len(crawl_log) >= 2
  /\ Len(successful_pages) >= 1
  /\ crawl_log[2] \in successful_pages[1].links
  /\ successful_pages[1].url = crawl_log[1]

(* C4: crawled_count never exceeds max_pages, it equals the size of        *)
(* crawled_urls, and no page is being crawled once it has reached the cap. *)
C4_PageCap ==
  /\ crawled_count <= max_pages
  /\ crawled_count = Cardinality(crawled_urls)
  /\ crawled_count >= max_pages => ~Crawling

\* the loop was left at the cap with URLs still on the queue
C4_Witness ==
  /\ pc = "main"
  /\ crawled_count = max_pages
  /\ crawl_queue # <<>>

(* C5: the known routes are crawled first, in list order, and of two URLs  *)
(* that are crawled the one put on the queue earlier is crawled earlier.   *)
C5_FifoOrder ==
  /\ \A k \in 1..Len(crawl_log) :
       /\ crawl_log[k] \in Range(enq_log)
       /\ k <= Len(known_routes) => crawl_log[k] = known_routes[k]
  /\ \A i, j \in 1..Len(crawl_log) :
       i < j => FirstPos(enq_log, crawl_log[i]) < FirstPos(enq_log, crawl_log[j])

\* two pages have been crawled
C5_Witness == Len(crawl_log) >= 2 /\ pc = "loop"

(* C6: every call of crawl_page that has returned left exactly one entry,  *)
(* in the bucket of its outcome: 2xx in successful_pages, 4xx and 5xx in   *)
(* their buckets, a raised exception in 'exceptions', any other status in  *)
(* 'other'.                                                                *)
C6_OneBucketPerCrawl ==
  /\ \A k \in 1..Len(crawl_log) :
       Recorded(crawl_log[k]) = IF k = Len(crawl_log) /\ InCrawlPage THEN 0 ELSE 1
  /\ \A i \in 1..Len(successful_pages) :
       200 <= successful_pages[i].status_code
         /\ successful_pages[i].status_code < 300
  /\ \A i \in 1..Len(error_pages["4xx"]) :
       400 <= error_pages["4xx"][i].status_code
         /\ error_pages["4xx"][i].status_code < 500
  /\ \A i \in 1..Len(error_pages["5xx"]) :
       500 <= error_pages["5xx"][i].status_code
         /\ error_pages["5xx"][i].status_code < 600
  /\ \A i \in 1..Len(error_pages["exceptions"]) :
       error_pages["exceptions"][i].status_code = ERROR
  /\ \A i \in 1..Len(error_pages["other"]) :
       LET sc == error_pages["other"][i].status_code IN
         sc # ERROR /\ ~(200 <= sc /\ sc < 300) /\ ~(400 <= sc /\ sc < 600)
  /\ pc = "mark" =>
       /\ result.url = url
       /\ IsRaised(response) => result.status_code = ERROR
       /\ ~IsRaised(response) => result.status_code = response.status_code

\* crawl_page has returned for a request that raised on its last retry,
\* after an earlier page was filed under 'other'
C6_Witness ==
  /\ pc = "mark"
  /\ IsRaised(response)
  /\ error_pages["other"] # <<>>
  /\ Len(error_pages["exceptions"]) = 1

\* main has returned and generate_report has run
Reported == pc = "exit" /\ report # NoReport

(* C7 as stated: the report holds every result of successful_pages and of  *)
(* every error_pages bucket, however many were recorded.                   *)
C7_ReportHasAllResults ==
  Reported =>
    /\ Range(successful_pages) \subseteq Range(report.successful_pages)
    /\ \A b \in Buckets :
         Range(error_pages[b]) \subseteq Range(report.detailed_errors[b])

(* C7 amended: the report holds every result of every error_pages bucket,  *)
(* in the JSON report and in the CSV file, and of successful_pages the     *)
(* first successful_listed results only, in their order.                   *)
C7_ReportListsErrorsAndFirstSuccesses ==
  Reported =>
    /\ \A b \in Buckets :
         /\ report.detailed_errors[b] = error_pages[b]
         /\ \A i \in 1..Len(error_pages[b]) :
              [url |-> error_pages[b][i].url,
               status_code |-> error_pages[b][i].status_code,
               error_type |-> b] \in report.csv
    /\ Len(report.successful_pages) =
         (IF Len(successful_pages) < successful_listed
            THEN Len(successful_pages) ELSE successful_listed)
    /\ \A i \in 1..Len(report.successful_pages) :
         report.successful_pages[i] = successful_pages[i]

\* a report of a scan with more successful pages than the report lists
C7_Witness ==
  /\ Reported
  /\ Len(successful_pages) > successful_listed
  /\ Len(report.successful_pages) = successful_listed

(* C8 as stated: every HTTP request sent to the target was immediately     *)
(* preceded by the request_delay wait.                                     *)
C8_EveryRequestDelayed == \A r \in net.log : r.delayed

(* C9: no page is crawled before authenticate has returned True; the       *)
(* credentials are tried in list order and no further one after the first  *)
(* success; when all fail the scan returns False with crawled_urls and     *)
(* discovered_urls empty, and main writes no report and returns 1.         *)
C9_AuthenticationGates ==
  /\ []((crawl_log # <<>> \/ Crawling \/ pc = "loop") => authenticated)
  /\ []((pc = "auth" /\ net.log = {}) => cred = 1)
  /\ [][pc = "auth" =>
          /\ pc' = "auth" => (cred' = cred + 1 /\ ~authenticated')
          /\ authenticated' => (pc' = "loop" /\ cred' = cred)
          /\ pc' = "main" => (cred = Len(credentials) /\ ~authenticated'
                                /\ ~scan_result')]_vars
  /\ []((pc \in {"main", "exit"} /\ ~authenticated) =>
          /\ ~scan_result
          /\ crawled_urls = {} /\ discovered_urls = {}
          /\ report = NoReport
          /\ pc = "exit" => exit_code = 1)

\* main has returned after every credential failed
C9_Witness == pc = "exit" /\ ~authenticated /\ cred = Len(credentials)

(* C10: in the report of a finished scan pages_crawled equals              *)
(* successful_pages plus error_pages, and error_pages equals the sum of    *)
(* the four error_summary counts.                                          *)
C10_CountsConsistent ==
  Reported =>
    /\ report.scan_info.pages_crawled = Cardinality(crawled_urls)
    /\ report.scan_info.pages_crawled =
         report.scan_info.successful_pages + report.scan_info.error_pages
    /\ report.scan_info.error_pages =
         report.error_summary.x4xx_errors + report.error_summary.x5xx_errors
           + report.error_summary.other_errors + report.error_summary.exceptions
    /\ report.scan_info.successful_pages = Len(successful_pages)
    /\ report.error_summary.x4xx_errors = Len(error_pages["4xx"])
    /\ report.error_summary.x5xx_errors = Len(error_pages["5xx"])
    /\ report.error_summary.other_errors = Len(error_pages["other"])
    /\ report.error_summary.exceptions = Len(error_pages["exceptions"])

\* a report of a scan that reached the cap with a successful page and an
\* exception
C10_Witness ==
  /\ Reported
  /\ report.scan_info.pages_crawled = max_pages
  /\ report.scan_info.successful_pages >= 1
  /\ report.error_summary.exceptions >= 1

(* C11: authentication_failures holds one record, of status 302 and with   *)
(* the full URL requested, for each redirect to the login page that        *)
(* make_request received, nothing else is appended to it, and the count of *)
(* the report is the number of those redirects.                            *)
C11_FailuresRecorded ==
  /\ Len(authentication_failures) = login_redirects
  /\ \A i \in 1..Len(authentication_failures) :
       /\ authentication_failures[i].status_code = 302
       /\ \E k \in 1..Len(crawl_log) :
            authentication_failures[i].url = urljoin(base_url, crawl_log[k])
  /\ report # NoReport =>
       /\ report.scan_info.authentication_failures = login_redirects
       /\ report.authentication_failures = authentication_failures

\* a report of a scan that met a redirect to the login page, and also a
\* redirect to another place
C11_Witness ==
  /\ pc = "exit" /\ report # NoReport
  /\ login_redirects >= 1
  /\ \E i \in 1..Len(error_pages["other"]) :
       error_pages["other"][i].status_code = 302
  /\ Len(error_pages["other"]) > login_redirects

C13_RetriesThenRaises ==
  /\ [](/\ attempt \in 0..(max_retries - 1)
        /\ \A i \in 1..Len(callers) : callers[i] \in 0..(max_retries - 1))
  /\ [](pc = "record" => response # NoResponse)
  /\ [](result # NoResult => result.status_code # TIMEOUT)
  /\ [][(pc = "request" /\ pc' = "record")
          => IF IsRaised(response')
               THEN /\ response'.exception \in RequestFailures
                    /\ attempt = max_retries - 1
                    /\ \A i \in 1..Len(callers) : callers[i] = max_retries - 1
               ELSE /\ response' \in Responses
                    /\ ~IsLoginRedirect(response')]_vars
  /\ [][(pc = "request" /\ attempt = max_retries - 1 /\ callers = <<>>)
          => pc' # "request"]_vars
  /\ [][(pc = "record" /\ IsRaised(response))
          => /\ result' = [url |-> url, status_code |-> ERROR,
                           error |-> response.exception, links |-> {}]
             /\ error_pages' =
                  [error_pages EXCEPT !["exceptions"] = Append(@, result')]
             /\ successful_pages' = successful_pages]_vars
  /\ [](pc = "mark" /\ IsRaised(response) => Recorded(url) = 1)
  /\ [][pc = "mark"
          => /\ url \in crawled_urls'
             /\ crawled_count' = crawled_count + 1
             /\ pc' = "loop"]_vars

\* a later page is being requested after the requests to an earlier page
\* failed three times
C13_Witness ==
  /\ pc = "request"
  /\ Len(error_pages["exceptions"]) >= 1
  /\ error_pages["exceptions"][1].error \in RequestFailures
  /\ error_pages["exceptions"][1].status_code = ERROR
  /\ error_pages["exceptions"][1].url \in crawled_urls
  /\ crawled_count = 1

\* the URL contains one of the skip patterns, in either case
MatchesSkipPattern(u) == \E p \in skip_patterns : Contains(Lower(u), p)

\* the URL is an absolute http URL that does not start with base_url
IsExternal(u) == StartsWithHttp(u) /\ ~StartsWith(u, base_url)

(* C14: a URL taken from the queue that contains a skip pattern or is an   *)
(* absolute http URL outside base_url is never passed to crawl_page, and   *)
(* the pass of the loop that skips it leaves crawled_urls, crawled_count   *)
(* and every bucket as they were.                                          *)
C14_SkippedNeverCrawled ==
  /\ [](\A i \in 1..Len(crawl_log) :
          ~MatchesSkipPattern(crawl_log[i]) /\ ~IsExternal(crawl_log[i]))
  /\ [](Crawling => ~MatchesSkipPattern(url) /\ ~IsExternal(url))
  /\ [][(/\ pc = "loop"
         /\ crawl_queue # <<>>
         /\ crawled_count < max_pages
         /\ \/ MatchesSkipPattern(Head(crawl_queue))
            \/ IsExternal(Head(crawl_queue)))
          => /\ pc' = "loop"
             /\ crawl_queue' = Tail(crawl_queue)
             /\ UNCHANGED <<crawled_urls, crawled_count, successful_pages,
                            error_pages, crawl_log>>]_vars

\* the scan of a list of four routes has ended with two of them skipped, the
\* other two crawled and none left on the queue
C14_Witness ==
  /\ pc = "exit"
  /\ <<"/", "logout">> \in Range(enq_log)
  /\ HrefExternal \in Range(enq_log)
  /\ crawl_queue = <<>>
  /\ crawled_urls = {<<"/">>, <<"/", "dashboard">>}
  /\ crawled_count = 2

(* C15 as stated: every link extract_links_from_page has returned for a    *)
(* crawled page resolves, against base_url, to the host of base_url.       *)
C15_LinksSameDomain ==
  \A i \in 1..Len(successful_pages) :
     \A l \in successful_pages[i].links :
        Netloc(urljoin(base_url, l)) = Netloc(base_url)

(* C16: crawl_page and the rest of the loop body leave discovered_urls and *)
(* the queue as they were, and the result has no links, for a page whose   *)
(* request raised or whose response is not a 200 with an HTML content      *)
(* type.                                                                   *)
C16_LinksOnlyFrom200Html ==
  [][(/\ pc \in {"record", "mark"}
      /\ \/ IsRaised(response)
         \/ response.status_code # 200
         \/ ~response.html)
       => /\ discovered_urls' = discovered_urls
          /\ crawl_queue' = crawl_queue
          /\ result'.links = {}]_vars

\* the loop body has finished with a page of status 201 whose HTML body
\* carries a link that is not discovered
C16_Witness ==
  /\ pc = "loop"
  /\ result # NoResult
  /\ result.status_code = 201
  /\ HrefNew \notin discovered_urls
  /\ crawled_count >= 1

(* C17 as stated: when authenticate has just returned True, the server     *)
(* accepted the credentials posted in that call.                           *)
C17_TrueMeansAccepted ==
  last_auth # NoAuth => (last_auth.ok => last_auth.accepted)

(* C18: every crawled URL and every URL on the queue is in discovered_urls,*)
(* and the report's total_discovered is at least its pages_crawled.        *)
C18_CrawledAndQueuedAreDiscovered ==
  /\ crawled_urls \subseteq discovered_urls
  /\ Range(crawl_queue) \subseteq discovered_urls
  /\ Crawling => url \in discovered_urls
  /\ report # NoReport =>
       report.scan_info.total_discovered >= report.scan_info.pages_crawled

\* the report of a scan that crawled two pages and discovered more URLs than
\* it crawled
C18_Witness ==
  /\ pc = "exit"
  /\ report # NoReport
  /\ report.scan_info.pages_crawled = 2
  /\ report.scan_info.total_discovered > 3

\* a step in which the scan, not yet back in main, ends with main returning:
\* the interrupt
Interrupted ==
  /\ pc \in {"auth", "loop", "request", "reauth", "record", "mark"}
  /\ pc' = "exit"

(* C19 as stated: on an interrupt main generates the report and returns 1, *)
(* and the report has pages_crawled = successful_pages + error_pages, the  *)
(* page being crawled being in no bucket and not in crawled_urls.          *)
C19_PartialReportConsistent ==
  [][Interrupted =>
       /\ report' # NoReport
       /\ exit_code' = 1
       /\ report'.scan_info.pages_crawled =
            report'.scan_info.successful_pages + report'.scan_info.error_pages
       /\ Crawling => (url \notin crawled_urls /\ Recorded(url) = 0)]_vars

(* C19, amended: on an interrupt main generates the report from the        *)
(* results held at that moment and returns 1.  The error counts add up as  *)
(* in a complete report and pages_crawled is the size of crawled_urls.     *)
(* The page being crawled is never in crawled_urls; it is in no bucket,    *)
(* and pages_crawled = successful_pages + error_pages, unless crawl_page   *)
(* has already returned: then it is in exactly one bucket and the sum is   *)
(* pages_crawled + 1.                                                      *)
C19_PartialReport ==
  [][Interrupted =>
       /\ report' = generate_report(crawled_urls, discovered_urls,
                                    successful_pages, error_pages,
                                    authentication_failures)
       /\ exit_code' = 1
       /\ UNCHANGED <<crawled_urls, successful_pages, error_pages>>
       /\ report'.scan_info.pages_crawled = Cardinality(crawled_urls)
       /\ report'.scan_info.successful_pages = Len(successful_pages)
       /\ report'.scan_info.error_pages =
            report'.error_summary.x4xx_errors
              + report'.error_summary.x5xx_errors
              + report'.error_summary.other_errors
              + report'.error_summary.exceptions
       /\ report'.scan_info.total_discovered
            >= report'.scan_info.pages_crawled
       /\ Crawling => url \notin crawled_urls
       /\ IF pc = "mark"
            THEN /\ Recorded(url) = 1
                 /\ report'.scan_info.successful_pages
                      + report'.scan_info.error_pages
                      = report'.scan_info.pages_crawled + 1
            ELSE /\ Crawling => Recorded(url) = 0
                 /\ report'.scan_info.successful_pages
                      + report'.scan_info.error_pages
                      = report'.scan_info.pages_crawled]_vars

\* main has returned 1 with the report of a scan interrupted after
\* crawl_page had recorded its second page
C19_Witness ==
  /\ pc = "exit"
  /\ exit_code = 1
  /\ report # NoReport
  /\ report.scan_info.pages_crawled = 1
  /\ report.scan_info.successful_pages + report.scan_info.error_pages = 2
  /\ url \notin crawled_urls

(* C20 as stated: an investigation request is sent only when the           *)
(* authenticate call of the constructor has returned True.                 *)
C20_InvestigatesOnlyAuthenticated ==
  (\E k \in 1..Len(inv_requests) : inv_requests[k].method = "GET")
    => inv_auth
=============================================================================
